---- MODULE Spec2Model ----
(***************************************************************************)
(* scripts/transcribe.py: the daily coaching sheet.  One run of the script *)
(* reads a manifest of call records and a folder of transcripts, computes  *)
(* the day's metrics, keyword signals, follow-up snippets, the top calls   *)
(* to review and the recommendations, and writes the report.               *)
(*                                                                         *)
(* Text is a sequence of one-character strings, so that lower-casing,      *)
(* substring search, word boundaries, line splitting, trimming and         *)
(* truncation are computed character by character as the script's str and *)
(* re calls compute them.                                                  *)
(***************************************************************************)
EXTENDS Integers, Sequences, FiniteSets, TLC

\* ------------------------------------------------------------------ bounds

\* Longest manifest of the general input family.
MaxCalls == 2
\* Longest manifest of the ranking input family (more calls than TopN).
MaxRankCalls == 6
\* Most transcript files in the folder.
MaxTexts == 2
\* Largest set whose every iteration order is enumerated.
MaxPermute == 3

\* ------------------------------------------------------- program constants

FollowupCap == 10
ReportFollowups == 8
SnippetLen == 180
TopN == 5
IntentBoost == 180
HighIntentBoost == 240
PriceThreshold == 3
AuthorityThreshold == 2
ShortCallSecs == 120
AskDivisor == 3

\* ------------------------------------------------------------- characters

UpperLetters ==
  <<"A","B","C","D","E","F","G","H","I","J","K","L","M",
    "N","O","P","Q","R","S","T","U","V","W","X","Y","Z">>
LowerLetters ==
  <<"a","b","c","d","e","f","g","h","i","j","k","l","m",
    "n","o","p","q","r","s","t","u","v","w","x","y","z">>
DigitChars == <<"0","1","2","3","4","5","6","7","8","9">>

Range(s) == {s[i] : i \in DOMAIN s}
SetMin(S) == CHOOSE m \in S : \A n \in S : m <= n
SetMax(S) == CHOOSE m \in S : \A n \in S : m >= n
\* the position of e in the sequence s of distinct elements
index_of(s, e) == CHOOSE i \in DOMAIN s : s[i] = e
Max(a, b) == IF a >= b THEN a ELSE b
Min(a, b) == IF a <= b THEN a ELSE b

\* str.lower() on one character
lower_table == [c \in Range(UpperLetters) |-> LowerLetters[index_of(UpperLetters, c)]]
lower_char(c) == IF c \in DOMAIN lower_table THEN lower_table[c] ELSE c
\* str.lower()
lower(s) == [i \in DOMAIN s |-> lower_char(s[i])]

\* the characters re's \w matches
WordChars == Range(UpperLetters) \cup Range(LowerLetters) \cup Range(DigitChars) \cup {"_"}
\* the characters str.strip() removes
Whitespace == {" ", "\t", "\n", "\r"}

\* whether position k of t holds a word character (positions outside t do not)
is_word(t, k) == k \in DOMAIN t /\ t[k] \in WordChars
\* re's \b between positions i-1 and i of t
word_boundary(t, i) == is_word(t, i - 1) # is_word(t, i)
\* whether the literal p occurs in t starting at position i
is_at(t, p, i) ==
  /\ i >= 1
  /\ i + Len(p) - 1 <= Len(t)
  /\ \A k \in 1..Len(p) : t[i + k - 1] = p[k]
\* p in t
contains(t, p) == \E i \in 1..(Len(t) - Len(p) + 1) : is_at(t, p, i)
\* a match of \b p \b at position i of t
word_at(t, p, i) ==
  /\ is_at(t, p, i)
  /\ word_boundary(t, i)
  /\ word_boundary(t, i + Len(p))
\* re.search(r"\b" + p + r"\b", t)
search_word(t, p) == \E i \in 1..(Len(t) - Len(p) + 1) : word_at(t, p, i)

\* str.strip()
strip(s) ==
  LET keep == {i \in DOMAIN s : s[i] \notin Whitespace}
  IN  IF keep = {} THEN <<>> ELSE SubSeq(s, SetMin(keep), SetMax(keep))

\* s[:n]
truncate(s, n) == IF Len(s) <= n THEN s ELSE SubSeq(s, 1, n)

\* str.splitlines(), from position i on
RECURSIVE split_from(_, _)
split_from(t, i) ==
  IF i > Len(t) THEN <<>>
  ELSE LET nl == {j \in i..Len(t) : t[j] = "\n"}
       IN  IF nl = {} THEN <<SubSeq(t, i, Len(t))>>
           ELSE <<SubSeq(t, i, SetMin(nl) - 1)>> \o split_from(t, SetMin(nl) + 1)
splitlines(t) == split_from(t, 1)

\* "\n".join(parts)
RECURSIVE join_lines(_)
join_lines(parts) ==
  IF parts = <<>> THEN <<>>
  ELSE IF Len(parts) = 1 THEN parts[1]
  ELSE parts[1] \o <<"\n">> \o join_lines(Tail(parts))

\* ------------------------------------------------------------ vocabularies

intent_terms ==
  << <<"m","e","e","t","i","n","g">>,
     <<"m","e","e","t">>,
     <<"b","o","o","k">>,
     <<"b","o","o","k","i","n","g">>,
     <<"d","e","m","o">>,
     <<"t","r","i","a","l">>,
     <<"q","u","o","t","e">>,
     <<"p","r","o","p","o","s","a","l">>,
     <<"n","e","x","t"," ","s","t","e","p">>,
     <<"f","o","l","l","o","w"," ","u","p">> >>

ask_phrases ==
  << <<"c","a","n"," ","w","e"," ","b","o","o","k">>,
     <<"s","h","a","l","l"," ","w","e"," ","b","o","o","k">>,
     <<"h","o","w"," ","a","b","o","u","t">>,
     <<"d","o","e","s"," ","t","u","e","s","d","a","y"," ","w","o","r","k">>,
     <<"c","a","n"," ","i"," ","b","o","o","k">>,
     <<"l","e","t","'","s"," ","s","c","h","e","d","u","l","e">>,
     <<"l","e","t"," ","u","s"," ","s","c","h","e","d","u","l","e">> >>

high_intent_terms ==
  << <<"m","e","e","t","i","n","g">>,
     <<"d","e","m","o">>,
     <<"q","u","o","t","e">>,
     <<"p","r","o","p","o","s","a","l">> >>

bucket_Price ==
  << <<"t","o","o"," ","e","x","p","e","n","s","i","v","e">>,
     <<"b","u","d","g","e","t">>,
     <<"c","o","s","t">>,
     <<"p","r","i","c","e">>,
     <<"p","r","i","c","i","n","g">> >>

bucket_Timing ==
  << <<"b","u","s","y">>,
     <<"l","a","t","e","r">>,
     <<"n","o","t"," ","n","o","w">>,
     <<"q","4">>,
     <<"q","1">>,
     <<"a","f","t","e","r">>,
     <<"n","e","x","t"," ","m","o","n","t","h">>,
     <<"t","o","o"," ","s","o","o","n">> >>

bucket_Authority ==
  << <<"n","e","e","d"," ","a","p","p","r","o","v","a","l">>,
     <<"m","y"," ","b","o","s","s">>,
     <<"d","e","c","i","s","i","o","n"," ","m","a","k","e","r">>,
     <<"s","i","g","n"," ","o","f","f">>,
     <<"s","i","g","n","-","o","f","f">>,
     <<"c","o","m","m","i","t","t","e","e">> >>

bucket_Competitor ==
  << <<"w","e"," ","a","l","r","e","a","d","y"," ","u","s","e">>,
     <<"s","w","i","t","c","h","i","n","g"," ","f","r","o","m">>,
     <<"c","o","m","p","e","t","i","t","o","r">>,
     <<"a","l","t","e","r","n","a","t","i","v","e">>,
     <<"a","n","o","t","h","e","r"," ","v","e","n","d","o","r">> >>

\* "U+2019" stands for the one character U+2019 (right single quotation mark)
bucket_Fit ==
  << <<"n","o","t"," ","r","e","l","e","v","a","n","t">>,
     <<"n","o","t"," ","a"," ","f","i","t">>,
     <<"d","o","n","U+2019","t"," ","n","e","e","d">>,
     <<"n","o"," ","n","e","e","d">>,
     <<"c","o","v","e","r","e","d"," ","a","l","r","e","a","d","y">> >>

BucketNames == <<"Price", "Timing", "Authority", "Competitor", "Fit">>
objection_buckets ==
  [k \in Range(BucketNames) |->
     CASE k = "Price" -> bucket_Price
       [] k = "Timing" -> bucket_Timing
       [] k = "Authority" -> bucket_Authority
       [] k = "Competitor" -> bucket_Competitor
       [] k = "Fit" -> bucket_Fit]

cue1_subjects ==
  << <<"i","'","l","l">>,
     <<"i"," ","w","i","l","l">> >>

cue1_verbs ==
  << <<"s","e","n","d">>,
     <<"e","m","a","i","l">>,
     <<"c","a","l","l">>,
     <<"f","o","l","l","o","w"," ","u","p">>,
     <<"f","o","l","l","o","w","-","u","p">>,
     <<"r","e","a","c","h"," ","o","u","t">> >>

cue2_subjects ==
  << <<"w","e","'","l","l">>,
     <<"w","e"," ","w","i","l","l">> >>

cue2_verbs ==
  << <<"s","e","n","d">>,
     <<"e","m","a","i","l">>,
     <<"c","a","l","l">>,
     <<"f","o","l","l","o","w"," ","u","p">> >>

cue3_phrases ==
  << <<"c","a","n"," ","y","o","u"," ","e","m","a","i","l">>,
     <<"p","l","e","a","s","e"," ","e","m","a","i","l">>,
     <<"s","e","n","d"," ","m","e">>,
     <<"s","h","a","r","e"," ","t","h","e"," ","p","r","o","p","o","s","a","l">>,
     <<"s","h","a","r","e"," ","a"," ","q","u","o","t","e">> >>

cue4_phrases ==
  << <<"b","o","o","k"," ","i","t">>,
     <<"b","o","o","k"," ","f","o","r">>,
     <<"b","o","o","k","e","d"," ","i","t">>,
     <<"b","o","o","k","e","d"," ","f","o","r">>,
     <<"s","c","h","e","d","u","l","e">>,
     <<"s","c","h","e","d","u","l","e","d">>,
     <<"t","o","m","o","r","r","o","w">>,
     <<"n","e","x","t"," ","w","e","e","k">>,
     <<"n","e","x","t"," ","t","u","e","s","d","a","y">>,
     <<"n","e","x","t"," ","w","e","d","n","e","s","d","a","y">>,
     <<"n","e","x","t"," ","t","h","u","r","s","d","a","y">>,
     <<"n","e","x","t"," ","f","r","i","d","a","y">> >>

\* the literal phrases each cue pattern accepts between its two \b
phrase_pairs(subjects, verbs) ==
  {subjects[i] \o <<" ">> \o verbs[j] : i \in DOMAIN subjects, j \in DOMAIN verbs}
cues ==
  << phrase_pairs(cue1_subjects, cue1_verbs),
     phrase_pairs(cue2_subjects, cue2_verbs),
     Range(cue3_phrases),
     Range(cue4_phrases) >>

str_inbound == <<"i","n","b","o","u","n","d">>
str_outbound == <<"o","u","t","b","o","u","n","d">>
str_None == <<"N","o","n","e">>
str_txt == <<".","t","x","t">>
str_unknown == <<"u","n","k","n","o","w","n">>

\* ----------------------------------------------------------------- helpers

\* the number of matches re.findall/re.finditer reports: the matches start at
\* the positions in P, each is len long, and a match never overlaps the one
\* before it
RECURSIVE count_non_overlapping(_, _, _)
count_non_overlapping(P, len, from) ==
  LET rest == {i \in P : i >= from}
  IN  IF rest = {} THEN 0
      ELSE 1 + count_non_overlapping(P, len, SetMin(rest) + Max(len, 1))

\* len(re.findall(r"\b" + re.escape(t.lower()) + r"\b", text_l))
count_word(text_l, term) ==
  LET p == lower(term)
      P == {i \in 1..(Len(text_l) - Len(p) + 1) : word_at(text_l, p, i)}
  IN  count_non_overlapping(P, Len(p), 1)

\* count_keywords(text, terms): the count of every term, by its index in terms
count_keywords(text, terms) ==
  LET text_l == lower(text)
  IN  [k \in DOMAIN terms |-> count_word(text_l, terms[k])]

RECURSIVE sum_seq(_)
sum_seq(s) == IF s = <<>> THEN 0 ELSE Head(s) + sum_seq(Tail(s))

\* any_phrase(text, phrases)
any_phrase(text, phrases) ==
  LET tl == lower(text)
  IN  \E k \in DOMAIN phrases : contains(tl, phrases[k])

\* the alternation "|".join(map(re.escape, ask_phrases)) at position i: the
\* first phrase of the list that occurs there, 0 when none does
ask_alternative(tl, i) ==
  LET hits == {k \in DOMAIN ask_phrases : is_at(tl, ask_phrases[k], i)}
  IN  IF hits = {} THEN 0 ELSE SetMin(hits)

\* sum(1 for _ in re.finditer(alternation, combined.lower())), from position i
RECURSIVE ask_matches(_, _)
ask_matches(tl, from) ==
  LET P == {i \in from..Len(tl) : ask_alternative(tl, i) # 0}
  IN  IF P = {} THEN 0
      ELSE LET i == SetMin(P)
           IN  1 + ask_matches(tl, i + Len(ask_phrases[ask_alternative(tl, i)]))

\* re.search(pat, ll, flags=re.I) for one cue pattern
cue_matches(pat, ll) ==
  LET l == lower(ll)
  IN  \E p \in pat : search_word(l, p)

\* the lines of text that match a cue, each stripped and cut to SnippetLen
\* characters, in line order (what the loop of extract_followups adds to found)
matching_snippets(text) ==
  LET lines == splitlines(text)
      ll(i) == strip(lines[i])
      hit == {i \in DOMAIN lines : \E c \in DOMAIN cues : cue_matches(cues[c], ll(i))}
      RECURSIVE collect(_)
      collect(i) ==
        IF i > Len(lines) THEN <<>>
        ELSE IF i \in hit THEN <<truncate(ll(i), SnippetLen)>> \o collect(i + 1)
        ELSE collect(i + 1)
  IN  collect(1)

\* the elements of s in order of first occurrence, each once
RECURSIVE first_seen(_, _)
first_seen(s, seen) ==
  IF s = <<>> THEN <<>>
  ELSE IF Head(s) \in seen THEN first_seen(Tail(s), seen)
  ELSE <<Head(s)>> \o first_seen(Tail(s), seen \cup {Head(s)})

\* ------------------------------------------------------------------ values

\* A JSON value of a call record: a string, an integer, null, or a key the
\* record does not have.
StrVal(s) == [t |-> "str", s |-> s, n |-> 0]
IntVal(n) == [t |-> "int", s |-> <<>>, n |-> n]
NoneVal == [t |-> "none", s |-> <<>>, n |-> 0]
AbsentVal == [t |-> "absent", s |-> <<>>, n |-> 0]

\* it.get(key, default)
get(it, key, default) == IF it[key].t = "absent" THEN default ELSE it[key]

\* the decimal digits of n >= 0
RECURSIVE digits_of(_)
digits_of(n) ==
  IF n < 10 THEN <<DigitChars[n + 1]>>
  ELSE digits_of(n \div 10) \o <<DigitChars[(n % 10) + 1]>>
\* str(n) of an int
format_int(n) == IF n < 0 THEN <<"-">> \o digits_of(-n) ELSE digits_of(n)

\* str(v), and what an f-string shows for v
to_str(v) ==
  CASE v.t = "str" -> v.s
    [] v.t = "int" -> format_int(v.n)
    [] OTHER -> str_None

\* the value of a string of decimal digits
RECURSIVE digits_value(_)
digits_value(s) ==
  IF s = <<>> THEN 0
  ELSE 10 * digits_value(SubSeq(s, 1, Len(s) - 1))
       + (index_of(DigitChars, s[Len(s)]) - 1)

\* int(s) of a str: surrounding whitespace and one sign are accepted, anything
\* but decimal digits after that raises ValueError
parse_int(s) ==
  LET st == strip(s)
      signed == st # <<>> /\ st[1] \in {"-", "+"}
      ds == IF signed THEN Tail(st) ELSE st
  IN  IF ds = <<>> \/ \E i \in DOMAIN ds : ds[i] \notin Range(DigitChars)
      THEN [ok |-> FALSE, n |-> 0]
      ELSE [ok |-> TRUE,
            n |-> IF signed /\ st[1] = "-" THEN 0 - digits_value(ds) ELSE digits_value(ds)]

\* bool(v): the values `or` replaces by its right operand are the falsy ones
truthy(v) ==
  CASE v.t = "str" -> v.s # <<>>
    [] v.t = "int" -> v.n # 0
    [] OTHER -> FALSE

\* int(it.get("durationSec",0) or 0): ok is FALSE where int() raises ValueError
duration_of(it) ==
  LET v == get(it, "durationSec", IntVal(0))
      x == IF truthy(v) THEN v ELSE IntVal(0)
  IN  IF x.t = "int" THEN [ok |-> TRUE, n |-> x.n] ELSE parse_int(x.s)

\* the direction compared as it is written, without .lower()
direction_of_cased(it) == to_str(get(it, "direction", StrVal(<<>>)))

\* str(it.get("direction","")).lower()
direction_of(it) == lower(to_str(get(it, "direction", StrVal(<<>>))))

\* Path(p).stem: the last component of the path without its last suffix
stem_of(p) ==
  LET cuts == {0, Len(p) + 1} \cup {i \in DOMAIN p : p[i] = "/"}
      part(i) == SubSeq(p, i + 1, SetMin({j \in cuts : j > i}) - 1)
      parts == {i \in cuts \ {Len(p) + 1} : part(i) # <<>> /\ part(i) # <<".">>}
      name == IF parts = {} THEN <<>> ELSE part(SetMax(parts))
      dots == {i \in DOMAIN name : name[i] = "."}
  IN  IF dots = {} \/ SetMax(dots) = 1 \/ SetMax(dots) = Len(name)
      THEN name
      ELSE SubSeq(name, 1, SetMax(dots) - 1)

\* Path(str(it.get("file",""))).stem
file_stem(it) == stem_of(to_str(get(it, "file", StrVal(<<>>))))

\* ------------------------------------------------------------------ inputs

\* The transcript lines the input transcripts are made of.
\* "I'll send the proposal tomorrow. Price is too expensive for us."
line_send == <<"I","'","l","l"," ","s","e","n","d"," ","t","h","e"," ","p","r","o","p","o","s","a","l"," ","t","o","m","o","r","r","o","w","."," ","P","r","i","c","e"," ","i","s"," ","t","o","o"," ","e","x","p","e","n","s","i","v","e"," ","f","o","r"," ","u","s",".">>
\* 'Can we book a demo?'
line_ask == <<"C","a","n"," ","w","e"," ","b","o","o","k"," ","a"," ","d","e","m","o","?">>
\* '  We will call you next week.  '
line_call == <<" "," ","W","e"," ","w","i","l","l"," ","c","a","l","l"," ","y","o","u"," ","n","e","x","t"," ","w","e","e","k","."," "," ">>
\* 'hello there'
line_hello == <<"h","e","l","l","o"," ","t","h","e","r","e">>
\* 'The price and cost exceed our budget.'
line_price == <<"T","h","e"," ","p","r","i","c","e"," ","a","n","d"," ","c","o","s","t"," ","e","x","c","e","e","d"," ","o","u","r"," ","b","u","d","g","e","t",".">>
\* 'I need approval from my boss.'
line_boss == <<"I"," ","n","e","e","d"," ","a","p","p","r","o","v","a","l"," ","f","r","o","m"," ","m","y"," ","b","o","s","s",".">>
\* 'Please email the quote.'
line_email == <<"P","l","e","a","s","e"," ","e","m","a","i","l"," ","t","h","e"," ","q","u","o","t","e",".">>
\* 'Shall we book a meeting?'
line_shall == <<"S","h","a","l","l"," ","w","e"," ","b","o","o","k"," ","a"," ","m","e","e","t","i","n","g","?">>
\* "Let's schedule it."
line_sched == <<"L","e","t","'","s"," ","s","c","h","e","d","u","l","e"," ","i","t",".">>
\* 'I will follow-up next Friday'
line_follow == <<"I"," ","w","i","l","l"," ","f","o","l","l","o","w","-","u","p"," ","n","e","x","t"," ","F","r","i","d","a","y">>
\* 'demoing is busy'
line_busy == <<"d","e","m","o","i","n","g"," ","i","s"," ","b","u","s","y">>
\* 'send me '
line_sendme == <<"s","e","n","d"," ","m","e"," ">>
\* 'tomorrow '
line_tomorrow == <<"t","o","m","o","r","r","o","w"," ">>

\* Two lines longer than SnippetLen that differ only after character SnippetLen.
long_prefix == line_tomorrow \o line_send \o line_send \o line_send
line_long_a == long_prefix \o <<"A">>
line_long_b == long_prefix \o <<"B">>

\* The transcripts (file contents).
text_send == line_send
text_ask == join_lines(<<line_ask, line_call, line_hello>>)
text_objections == join_lines(<<line_price, line_boss, line_email, line_shall>>)
text_repeat == join_lines(<<line_send, line_sched, line_follow>>)
text_long == join_lines(<<line_long_a, line_long_b>>)
text_plain == join_lines(<<line_hello, line_busy>>) \o <<"\n">>
text_empty == <<>>
\* more matching lines than extract_followups returns
text_many == join_lines([k \in 1..(FollowupCap + 1) |-> line_sendme \o <<LowerLetters[k]>>])

\* A *.txt file of the transcript folder; readable is FALSE for a file whose
\* read_text raises.
TxtFile(stem, content, readable) == [stem |-> stem, content |-> content, readable |-> readable]
stem_a == <<"a">>
stem_b == <<"b">>
stem_c == <<"c">>

\* A call record of the manifest.
Rec(file, direction, durationSec, when, remoteNumber) ==
  [file |-> file, direction |-> direction, durationSec |-> durationSec,
   when |-> when, remoteNumber |-> remoteNumber]

file_a == <<"a",".","w","a","v">>
file_b == <<"r","e","c","/","b",".","w","a","v">>
file_c == <<"c",".","v","2",".","m","p","3">>
dir_Outbound == <<"O","u","t","b","o","u","n","d">>
dir_inbound == <<"i","n","b","o","u","n","d">>
dir_INBOUND == <<"I","N","B","O","U","N","D">>
dir_other == <<"u","n","k","n","o","w","n">>
when_am == <<"0","9",":","1","5">>
when_pm == <<"1","4",":","4","0">>
remote_1 == <<"+","1","5","5","5","0","1","0","0">>
dur_text_90 == <<"9","0">>
dur_text_bad == <<"n","/","a">>
today_1 == <<"2","0","2","6","-","1","1","-","0","3">>

\* scenario: one outbound call of 90 s
rec_out90 == Rec(StrVal(file_a), StrVal(dir_Outbound), IntVal(90), StrVal(when_am), StrVal(remote_1))
\* an inbound call of 300 s
rec_in300 == Rec(StrVal(file_b), StrVal(dir_inbound), IntVal(300), StrVal(when_pm), AbsentVal)
\* the duration as a numeric string, the direction in capitals
rec_text90 == Rec(StrVal(file_c), StrVal(dir_INBOUND), StrVal(dur_text_90), StrVal(when_am), StrVal(remote_1))
\* a record with no field at all
rec_bare == Rec(AbsentVal, AbsentVal, AbsentVal, AbsentVal, AbsentVal)
\* a negative duration, a direction that is neither inbound nor outbound
rec_negative == Rec(StrVal(file_b), StrVal(dir_other), IntVal(-5), StrVal(when_pm), StrVal(remote_1))
\* a non-numeric duration, an empty direction
rec_malformed == Rec(StrVal(file_a), StrVal(<<>>), StrVal(dur_text_bad), StrVal(when_am), AbsentVal)
\* null everywhere
rec_null == Rec(NoneVal, NoneVal, NoneVal, NoneVal, NoneVal)
\* a long outbound call without a file
rec_out510 == Rec(AbsentVal, StrVal(str_outbound), IntVal(510), StrVal(when_pm), StrVal(remote_1))

\* The manifest file: missing, a JSON list of records, or one JSON object.
ManifestAbsent == [kind |-> "absent", list |-> <<>>, object |-> rec_bare]
ManifestList(s) == [kind |-> "list", list |-> s, object |-> rec_bare]
ManifestObject(r) == [kind |-> "object", list |-> <<>>, object |-> r]

SeqsUpTo(S, n) == UNION {[1..k -> S] : k \in 0..n}
\* the listings of a folder that holds at most MaxTexts of the files F (a
\* folder holds one file of a name)
Folders(F) ==
  {s \in SeqsUpTo(F, MaxTexts) : \A i, j \in DOMAIN s : i # j => s[i].stem # s[j].stem}

\* General family: every shape of record, short manifests, few transcripts.
GeneralRecords ==
  {rec_out90, rec_in300, rec_text90, rec_bare, rec_negative, rec_malformed, rec_null}
GeneralManifests ==
  {ManifestAbsent}
    \cup {ManifestList(s) : s \in SeqsUpTo(GeneralRecords, MaxCalls)}
    \cup {ManifestObject(r) : r \in GeneralRecords}
GeneralFiles ==
  {TxtFile(stem_a, text_send, TRUE), TxtFile(stem_a, text_ask, TRUE),
   TxtFile(stem_b, text_objections, TRUE), TxtFile(stem_b, text_plain, TRUE)}

\* Follow-up family: every transcript, an empty manifest or the one call.
FollowupManifests == {ManifestAbsent, ManifestList(<<rec_out90>>)}
FollowupFiles ==
  {TxtFile(stem_a, text_send, TRUE), TxtFile(stem_a, text_repeat, TRUE),
   TxtFile(stem_a, text_many, TRUE), TxtFile(stem_a, text_send, FALSE),
   TxtFile(stem_b, text_send, TRUE), TxtFile(stem_b, text_long, TRUE),
   TxtFile(stem_b, text_ask, TRUE), TxtFile(stem_b, text_empty, TRUE),
   TxtFile(stem_c, text_send, TRUE)}

\* Ranking family: manifests of TopN to MaxRankCalls calls whose scores tie.
RankRecords == {rec_out90, rec_in300, rec_out510}
RankManifests ==
  {ManifestList(s) : s \in UNION {[1..k -> RankRecords] : k \in TopN..MaxRankCalls}}
RankFolders ==
  { <<>>, <<TxtFile(stem_a, text_send, TRUE)>> }

\* The inputs of a run, the manifest file and the transcript folder, by family.
Inputs ==
  { [manifests |-> GeneralManifests, folders |-> Folders(GeneralFiles)],
    [manifests |-> FollowupManifests, folders |-> Folders(FollowupFiles)],
    [manifests |-> RankManifests, folders |-> RankFolders] }

\* The dates the clock may show.
Days == {today_1}

\* Every file content of the inputs, and the empty text of a call without
\* a transcript.
Contents ==
  {<<>>} \cup {f.content : f \in GeneralFiles \cup FollowupFiles \cup UNION {Range(s) : s \in RankFolders}}

\* ---------------------------------------------------------------- pipeline

\* load_manifest(p)
load_manifest(m) ==
  CASE m.kind = "absent" -> <<>>
    [] m.kind = "list" -> m.list
    [] m.kind = "object" -> <<m.object>>

\* read_texts(folder): the readable files, by stem, in the order of the listing
is_readable(f) == f.readable
read_texts(dir) ==
  LET ok == SelectSeq(dir, is_readable)
  IN  [i \in DOMAIN ok |-> [stem |-> ok[i].stem, text |-> ok[i].content]]

\* texts.get(stem, "")
texts_get(txts, stem) ==
  LET at == {i \in DOMAIN txts : txts[i].stem = stem}
  IN  IF at # {} THEN txts[SetMin(at)].text ELSE <<>>

\* int(a/b) for b > 0: the quotient rounded toward zero
trunc_div(a, b) == IF a >= 0 THEN a \div b ELSE 0 - ((0 - a) \div b)

\* the number of records whose direction, lower-cased, is d
count_direction(its, d) == Cardinality({i \in DOMAIN its : direction_of(its[i]) = d})

\* the orders in which iterating a set may yield its elements (ins lists them
\* once each): every order of a set of at most MaxPermute elements; of a larger
\* set, the first MaxPermute rotations of ins and of its reverse
set_orders(ins) ==
  LET n == Len(ins)
      rot(k) == [i \in 1..n |-> ins[((i + k - 1) % n) + 1]]
      rev(k) == [i \in 1..n |-> ins[((n - i + k) % n) + 1]]
  IN  IF n <= MaxPermute
      THEN {[i \in 1..n |-> ins[p[i]]] :
              p \in {f \in [1..n -> 1..n] : \A i, j \in 1..n : i # j => f[i] # f[j]}}
      ELSE {rot(k) : k \in 0..(MaxPermute - 1)} \cup {rev(k) : k \in 0..(MaxPermute - 1)}

\* found of extract_followups(text) when its loop is through, in insertion
\* order: the distinct snippets by first occurrence
found_of(text) == first_seen(matching_snippets(text), {})
\* found_of, computed once for every content of the inputs
found_table == {<<c, found_of(c)>> : c \in Contents}
found_in(text) == (CHOOSE e \in found_table : e[1] = text)[2]

\* extract_followups(text): found is a set, and list(found)[:10] takes the
\* first FollowupCap elements in the set's iteration order
extract_followups(text) ==
  {truncate(o, FollowupCap) : o \in set_orders(found_in(text))}

\* de-dup that keeps the last occurrence of a snippet instead of the first
dedup_keep_last(fs) ==
  [k \in 1..Cardinality({i \in DOMAIN fs : \A j \in DOMAIN fs : j > i => fs[j] # fs[i]}) |->
     fs[CHOOSE i \in DOMAIN fs :
          /\ \A j \in DOMAIN fs : j > i => fs[j] # fs[i]
          /\ Cardinality({h \in 1..i : \A j \in DOMAIN fs : j > h => fs[j] # fs[h]}) = k]]

\* line 93: de-dup while preserving order
dedup(fs) == first_seen(fs, {})

\* lines 101-102: the boost of a transcript
boost_of(txt) ==
  (IF any_phrase(txt, intent_terms) THEN IntentBoost ELSE 0)
    + (IF any_phrase(txt, high_intent_terms) THEN HighIntentBoost ELSE 0)
\* boost_of, computed once for every content of the inputs
boost_table == {<<c, boost_of(c)>> : c \in Contents}
boost_in(txt) == (CHOOSE e \in boost_table : e[1] = txt)[2]

\* score_item(it)
score_item(it, txts) ==
  duration_of(it).n + boost_in(texts_get(txts, file_stem(it)))

\* lines 66-86: combined and the signals counted in it
signals_of(txts) ==
  LET comb == join_lines([i \in DOMAIN txts |-> txts[i].text])
  IN  [combined |-> comb,
       intent_counts |-> IF comb # <<>> THEN count_keywords(comb, intent_terms)
                         ELSE [k \in DOMAIN intent_terms |-> 0],
       ask_rate |-> IF comb # <<>> THEN ask_matches(lower(comb), 1) ELSE 0,
       objections |-> [k \in Range(BucketNames) |->
                         IF comb # <<>>
                         THEN sum_seq(count_keywords(comb, objection_buckets[k]))
                         ELSE 0]]
\* signals_of, computed once for every folder of the inputs
signals_table ==
  {<<t, signals_of(t)>> : t \in {read_texts(d) : d \in UNION {in.folders : in \in Inputs}}}
signals_in(txts) == (CHOOSE e \in signals_table : e[1] = txts)[2]

\* one insertion of an unstable descending sort: index i goes before the
\* indices whose key equals its own
insert_desc_unstable(sorted, i, keys) ==
  LET before == {k \in DOMAIN sorted : keys[sorted[k]] > keys[i]}
      n == Cardinality(before)
  IN  SubSeq(sorted, 1, n) \o <<i>> \o SubSeq(sorted, n + 1, Len(sorted))

\* one insertion of a stable descending sort: index i goes after every index
\* whose key is at least its own
insert_desc(sorted, i, keys) ==
  LET before == {k \in DOMAIN sorted : keys[sorted[k]] >= keys[i]}
      n == Cardinality(before)
  IN  SubSeq(sorted, 1, n) \o <<i>> \o SubSeq(sorted, n + 1, Len(sorted))

\* sorted(range, key=keys, reverse=True): the indices 1..n of keys, by key
\* descending, equal keys in index order
RECURSIVE sorted_upto(_, _)
sorted_upto(keys, n) ==
  IF n = 0 THEN <<>> ELSE insert_desc(sorted_upto(keys, n - 1), n, keys)
sorted_desc(keys) == sorted_upto(keys, Len(keys))

str_demo == <<"d","e","m","o">>
str_meeting == <<"m","e","e","t","i","n","g">>

\* intent_counts.get(term, 0)
intent_get(counts, term) ==
  IF term \in Range(intent_terms) THEN counts[index_of(intent_terms, term)] ELSE 0

\* lines 109-112: the two ask rules, of which at most one fires
ask_rule(asks, calls) ==
  IF asks = 0 /\ calls > 0 THEN <<"ask_increase">>
  ELSE IF asks < Max(1, calls \div AskDivisor) THEN <<"ask_raise">>
  ELSE <<>>
\* the price rule firing on any Price objection at all
price_rule_any(objs) == IF objs["Price"] >= 1 THEN <<"price">> ELSE <<>>
\* line 113
price_rule(objs) == IF objs["Price"] >= PriceThreshold THEN <<"price">> ELSE <<>>
\* line 115
authority_rule(objs) == IF objs["Authority"] >= AuthorityThreshold THEN <<"authority">> ELSE <<>>
\* line 117
cold_rule(inb, outb, avg) == IF outb > inb /\ avg < ShortCallSecs THEN <<"cold">> ELSE <<>>
\* line 119
pitch_rule(counts, calls) ==
  IF intent_get(counts, str_demo) + intent_get(counts, str_meeting) = 0 /\ calls > 0
  THEN <<"pitch">> ELSE <<>>
\* the baseline line appended whatever fired before it
baseline_rule_always(rs) == rs \o <<"baseline">>
\* lines 121-122
baseline_rule(rs) == IF rs = <<>> THEN <<"baseline">> ELSE rs

\* lines 108-122: the recommendations, each named by its rule
recommendations(asks, calls, objs, inb, outb, avg, counts) ==
  baseline_rule(ask_rule(asks, calls) \o price_rule(objs) \o authority_rule(objs)
                  \o cold_rule(inb, outb, avg) \o pitch_rule(counts, calls))

\* One line of the report: the template it is printed from (kind, and tag for
\* a recommendation), the numbers and the texts the template is filled with.
Line(kind, tag, nums, parts) == [kind |-> kind, tag |-> tag, nums |-> nums, parts |-> parts]

\* lines 138-139: the intent terms that occur, most frequent first, at most six
top_intent(counts) ==
  LET order == sorted_desc(counts)
      shown == SelectSeq(order, LAMBDA k : counts[k] > 0)
      six == truncate(shown, 6)
  IN  Line("intent", "", [i \in DOMAIN six |-> counts[six[i]]],
           [i \in DOMAIN six |-> intent_terms[six[i]]])

\* line 141: the objection themes that occur, in the order of the buckets
objection_line(objs) ==
  LET shown == SelectSeq(BucketNames, LAMBDA k : objs[k] > 0)
  IN  Line("objections", "", [i \in DOMAIN shown |-> objs[shown[i]]],
           [i \in DOMAIN shown |-> <<shown[i]>>])

\* lines 153-158: the report line of one top call
top_call_line(it) ==
  Line("top_call", "", <<>>,
       << to_str(get(it, "when", StrVal(<<>>))),
          to_str(get(it, "remoteNumber", StrVal(str_unknown))),
          to_str(get(it, "durationSec", IntVal(0))),
          file_stem(it) \o str_txt >>)

\* lines 125-164: the lines of the report
build_body(day, its, calls, secs, avg, inb, outb, asks, comb, counts, objs, fups, top, rs) ==
  LET shown == truncate(fups, ReportFollowups)
  IN  << Line("title", "", <<>>, <<day>>),
         Line("summary", "", <<>>, <<>>),
         Line("calls", "", <<calls>>, <<>>),
         Line("talk_time", "", <<secs \div 60, secs % 60, avg>>, <<>>),
         Line("directions", "", <<inb, outb>>, <<>>),
         Line("ask_count", "", <<asks>>, <<>>) >>
      \o (IF calls = 0 THEN <<Line("no_recordings", "", <<>>, <<>>)>> ELSE <<>>)
      \o <<Line("signals", "", <<>>, <<>>)>>
      \o (IF comb # <<>>
          THEN <<top_intent(counts)>>
                 \o (IF \E k \in DOMAIN objs : objs[k] # 0
                     THEN <<objection_line(objs)>> ELSE <<>>)
          ELSE <<Line("limited_signal", "", <<>>, <<>>)>>)
      \o (IF fups # <<>>
          THEN <<Line("followups", "", <<>>, <<>>)>>
                 \o [i \in DOMAIN shown |-> Line("followup", "", <<>>, <<shown[i]>>)]
          ELSE <<>>)
      \o <<Line("top_calls", "", <<>>, <<>>)>>
      \o (IF top # <<>>
          THEN [i \in DOMAIN top |-> top_call_line(its[top[i]])]
          ELSE <<Line("no_top_calls", "", <<>>, <<>>)>>)
      \o <<Line("recommendations", "", <<>>, <<>>)>>
      \o [i \in DOMAIN rs |-> Line("rec", rs[i], <<>>, <<>>)]

\* ------------------------------------------------------------------- state

VARIABLES
  manifest,       \* the manifest file (sys.argv[1])
  folder,         \* the listing of the transcript folder (sys.argv[2])
  clock,          \* the date the clock shows
  sheet,          \* the report file (sys.argv[3]): its lines, <<>> before it is written
  prev_sheet,     \* the report file as the run before this one left it
  rerun,          \* whether this is the second run on these inputs
  pc,             \* the statement the run is at
  items, texts, today,
  total_calls, total_secs, avg_secs, inbound, outbound,
  combined, intent_counts, ask_rate, objections,
  followups,
  t_idx,          \* how many transcripts the loop of lines 90-91 has done
  extracted,      \* what the latest call of extract_followups returned
  aggregated,     \* followups as the loop of lines 90-91 left it, before line 93
  top_calls,      \* the top calls, each by its index in items
  recs, body

inputs == <<manifest, folder, clock>>
outputs == <<sheet, prev_sheet, rerun>>
loaded == <<items, texts, today>>
metrics == <<total_calls, total_secs, avg_secs, inbound, outbound>>
signals == <<combined, intent_counts, ask_rate, objections>>
snippets == <<followups, t_idx, extracted, aggregated>>
results == <<top_calls, recs, body>>
vars == <<inputs, outputs, pc, loaded, metrics, signals, snippets, results>>

NoCounts == [k \in DOMAIN intent_terms |-> 0]
NoObjections == [k \in Range(BucketNames) |-> 0]


Init ==
  /\ \E in \in Inputs : manifest \in in.manifests /\ folder \in in.folders
  /\ clock \in Days
  /\ sheet = <<>> /\ prev_sheet = <<>> /\ rerun = FALSE
  /\ pc = "load"
  /\ items = <<>> /\ texts = <<>> /\ today = <<>>
  /\ total_calls = 0 /\ total_secs = 0 /\ avg_secs = 0
  /\ inbound = 0 /\ outbound = 0
  /\ combined = <<>> /\ intent_counts = NoCounts /\ ask_rate = 0
  /\ objections = NoObjections
  /\ followups = <<>> /\ t_idx = 0 /\ extracted = <<>> /\ aggregated = <<>>
  /\ top_calls = <<>> /\ recs = <<>> /\ body = <<>>

\* lines 54-56
Load ==
  /\ pc = "load"
  /\ items' = load_manifest(manifest)
  /\ texts' = read_texts(folder)
  /\ today' = clock
  /\ pc' = "metrics"
  /\ UNCHANGED <<inputs, outputs, metrics, signals, snippets, results>>

\* lines 58-63; int() of a duration that is no number raises ValueError and
\* the run ends there
Metrics ==
  /\ pc = "metrics"
  /\ IF \E i \in DOMAIN items : ~duration_of(items[i]).ok
     THEN /\ pc' = "error"
          /\ UNCHANGED metrics
     ELSE /\ total_calls' = Len(items)
          /\ total_secs' = sum_seq([i \in DOMAIN items |-> duration_of(items[i]).n])
          /\ avg_secs' = IF Len(items) # 0 THEN trunc_div(total_secs', Len(items)) ELSE 0
          /\ inbound' = count_direction(items, str_inbound)
          /\ outbound' = count_direction(items, str_outbound)
          /\ pc' = "signals"
  /\ UNCHANGED <<inputs, outputs, loaded, signals, snippets, results>>

\* lines 66-86
Signals ==
  /\ pc = "signals"
  /\ LET s == signals_in(texts)
     IN  /\ combined' = s.combined
         /\ intent_counts' = s.intent_counts
         /\ ask_rate' = s.ask_rate
         /\ objections' = s.objections
  /\ pc' = "followups"
  /\ UNCHANGED <<inputs, outputs, loaded, metrics, snippets, results>>

\* lines 89-91, one transcript: followups.extend(extract_followups(t))
Extract ==
  /\ pc = "followups"
  /\ t_idx < Len(texts)
  /\ \E found \in extract_followups(texts[t_idx + 1].text) :
       /\ extracted' = found
       /\ followups' = followups \o found
  /\ t_idx' = t_idx + 1
  /\ UNCHANGED <<inputs, outputs, pc, loaded, metrics, signals, aggregated, results>>

\* line 93, once the loop is through
Dedup ==
  /\ pc = "followups"
  /\ t_idx = Len(texts)
  /\ aggregated' = followups
  /\ followups' = dedup(followups)
  /\ pc' = "rank"
  /\ UNCHANGED <<inputs, outputs, loaded, metrics, signals, t_idx, extracted, results>>

\* lines 96-105
Rank ==
  /\ pc = "rank"
  /\ top_calls' = truncate(sorted_desc([i \in DOMAIN items |-> score_item(items[i], texts)]), TopN)
  /\ pc' = "recs"
  /\ UNCHANGED <<inputs, outputs, loaded, metrics, signals, snippets, recs, body>>

\* lines 108-122
Recommend ==
  /\ pc = "recs"
  /\ recs' = recommendations(ask_rate, total_calls, objections, inbound, outbound,
                             avg_secs, intent_counts)
  /\ pc' = "build"
  /\ UNCHANGED <<inputs, outputs, loaded, metrics, signals, snippets, top_calls, body>>

\* lines 125-164
Build ==
  /\ pc = "build"
  /\ body' = build_body(today, items, total_calls, total_secs, avg_secs, inbound, outbound,
                        ask_rate, combined, intent_counts, objections, followups,
                        top_calls, recs)
  /\ pc' = "save"
  /\ UNCHANGED <<inputs, outputs, loaded, metrics, signals, snippets, top_calls, recs>>

\* lines 167-169
Save ==
  /\ pc = "save"
  /\ sheet' = body
  /\ pc' = "done"
  /\ UNCHANGED <<inputs, prev_sheet, rerun, loaded, metrics, signals, snippets, results>>

\* The script is run once more on the same manifest and folder.
Rerun ==
  /\ pc = "done"
  /\ ~rerun
  /\ rerun' = TRUE
  /\ prev_sheet' = sheet
  /\ pc' = "load"
  /\ items' = <<>> /\ texts' = <<>> /\ today' = <<>>
  /\ total_calls' = 0 /\ total_secs' = 0 /\ avg_secs' = 0
  /\ inbound' = 0 /\ outbound' = 0
  /\ combined' = <<>> /\ intent_counts' = NoCounts /\ ask_rate' = 0
  /\ objections' = NoObjections
  /\ followups' = <<>> /\ t_idx' = 0 /\ extracted' = <<>> /\ aggregated' = <<>>
  /\ top_calls' = <<>> /\ recs' = <<>> /\ body' = <<>>
  /\ UNCHANGED <<inputs, sheet>>

Next ==
  \/ Load
  \/ Metrics
  \/ Signals
  \/ Extract
  \/ Dedup
  \/ Rank
  \/ Recommend
  \/ Build
  \/ Save
  \/ Rerun

Spec == Init /\ [][Next]_vars

\* ---------------------------------------------------------------- properties

\* the statements of the run after line 63, after line 93, after line 105 and
\* after line 122
AfterMetrics == {"signals", "followups", "rank", "recs", "build", "save", "done"}
AfterDedup == {"rank", "recs", "build", "save", "done"}
AfterRank == {"recs", "build", "save", "done"}
AfterRecs == {"build", "save", "done"}

\* C1: the recommendation list is never empty, and the baseline line is in it
\* exactly when none of the five conditioned rules fired (the ask rule, Price
\* >= 3, Authority >= 2, outbound > inbound with avg_secs < 120, demo + meeting
\* = 0 with total_calls > 0); it is then the only line.
C1_BaselineExactlyWhenNoRuleFired ==
  pc \in AfterRecs =>
    LET ask_fired == \/ ask_rate = 0 /\ total_calls > 0
                     \/ ask_rate < Max(1, total_calls \div AskDivisor)
        price_fired == objections["Price"] >= PriceThreshold
        authority_fired == objections["Authority"] >= AuthorityThreshold
        cold_fired == outbound > inbound /\ avg_secs < ShortCallSecs
        pitch_fired == /\ intent_get(intent_counts, str_demo)
                            + intent_get(intent_counts, str_meeting) = 0
                       /\ total_calls > 0
        fired == ask_fired \/ price_fired \/ authority_fired \/ cold_fired \/ pitch_fired
    IN  /\ recs # <<>>
        /\ ("baseline" \in Range(recs)) <=> ~fired
        /\ ~fired => recs = <<"baseline">>

\* a day with calls on which no conditioned rule fired
C1_BaselineOnlyDay ==
  pc = "done" /\ total_calls > 0 /\ recs = <<"baseline">>

\* C2 (Scenario A): with an empty manifest the report shows Calls: 0 and
\* Avg/call: 0s, holds the "No eligible recordings today" placeholder, and its
\* Recommendations section holds the baseline line and nothing else.
C2_EmptyManifestBaselineOnly ==
  (pc = "done" /\ items = <<>>) =>
    /\ Line("calls", "", <<0>>, <<>>) \in Range(sheet)
    /\ \E l \in Range(sheet) : l.kind = "talk_time" /\ l.nums[3] = 0
    /\ Line("no_recordings", "", <<>>, <<>>) \in Range(sheet)
    /\ {l \in Range(sheet) : l.kind = "rec"} = {Line("rec", "baseline", <<>>, <<>>)}

\* C3: the top calls are min(5, total_calls) distinct calls, by score
\* descending; two of them with equal score are in manifest order, and no call
\* left out has a higher score than one returned.
C3_TopCallsRanked ==
  pc \in AfterRank =>
    LET score == [i \in DOMAIN items |-> score_item(items[i], texts)]
    IN  /\ Len(top_calls) = Min(TopN, total_calls)
        /\ \A k \in DOMAIN top_calls : top_calls[k] \in DOMAIN items
        /\ \A j, k \in DOMAIN top_calls :
             j < k => /\ top_calls[j] # top_calls[k]
                      /\ score[top_calls[j]] >= score[top_calls[k]]
                      /\ score[top_calls[j]] = score[top_calls[k]]
                           => top_calls[j] < top_calls[k]
        /\ \A i \in DOMAIN items \ Range(top_calls) :
             \A k \in DOMAIN top_calls : score[i] <= score[top_calls[k]]

\* more than five calls, two of the returned ones with equal score and another
\* of lower score after them
C3_TieAmongTopCalls ==
  /\ pc = "done"
  /\ total_calls > TopN
  /\ \E j, k \in DOMAIN top_calls :
       /\ j < k
       /\ score_item(items[top_calls[j]], texts) = score_item(items[top_calls[k]], texts)
       /\ boost_in(texts_get(texts, file_stem(items[top_calls[j]])))
            # boost_in(texts_get(texts, file_stem(items[top_calls[k]])))
  /\ score_item(items[top_calls[1]], texts) > score_item(items[top_calls[TopN]], texts)

\* C4: the final follow-up list holds no snippet twice; it holds the snippets
\* aggregated over the transcripts, each at the position of its first
\* occurrence, the order of first occurrences kept.
C4_FollowupsDeduplicated ==
  pc \in AfterDedup =>
    LET first == [k \in DOMAIN followups |->
                   SetMin({i \in DOMAIN aggregated : aggregated[i] = followups[k]})]
    IN  /\ \A j, k \in DOMAIN followups : j # k => followups[j] # followups[k]
        /\ Range(followups) = Range(aggregated)
        /\ \A j, k \in DOMAIN followups : j < k => first[j] < first[k]

\* two transcripts held the same matching line, and it was not the last new
\* snippet: another snippet was first seen after its first occurrence
C4_DuplicateAcrossTranscripts ==
  /\ pc = "done"
  /\ \E i, j, k \in DOMAIN aggregated :
       /\ i < j /\ j < k
       /\ aggregated[i] = aggregated[k]
       /\ aggregated[j] # aggregated[i]
       /\ \A h \in 1..(j - 1) : aggregated[h] # aggregated[j]
  /\ Len(followups) < Len(aggregated)

\* C5: avg_secs is 0 when total_calls is 0, and otherwise total_secs //
\* total_calls, the floor of the quotient.
C5_AvgIsFloorDivision ==
  pc \in AfterMetrics =>
    avg_secs = IF total_calls = 0 THEN 0 ELSE total_secs \div total_calls

\* C6: whatever a record's durationSec holds, the duration used for it is a
\* non-negative integer, and the run does not fail on it.
C6_DurationsNonNegativeNoError ==
  /\ pc # "error"
  /\ pc \in AfterMetrics =>
       /\ \A i \in DOMAIN items : duration_of(items[i]).n >= 0
       /\ total_secs >= 0

\* C7: the second run on the same manifest and transcripts, on the same day,
\* writes the report the first run wrote.
C7_SecondRunSameReport ==
  (rerun /\ pc = "done") => sheet = prev_sheet

\* C8 (Scenario B, as stated): one call of 90 s, "Outbound", with the
\* transcript line_send: ask_rate is 0, the Price tally is at least 1, the
\* follow-ups hold the line, and the recommendations include the ask-frequency
\* rule, the Price-framing rule and the cold-call rule.
ScenarioB ==
  /\ pc = "done"
  /\ Len(items) = 1
  /\ items[1]["durationSec"] = IntVal(90)
  /\ items[1]["direction"] = StrVal(dir_Outbound)
  /\ Len(texts) = 1
  /\ texts_get(texts, file_stem(items[1])) = text_send
C8_ScenarioB_AsStated ==
  ScenarioB =>
    /\ ask_rate = 0
    /\ objections["Price"] >= 1
    /\ line_send \in Range(followups)
    /\ {"ask_increase", "price", "cold"} \subseteq Range(recs)

\* C8 (Scenario B, amended): ask_rate is 0, the Price tally is at least 1 and
\* below the threshold of the Price-framing rule, the follow-ups hold the line,
\* and the recommendations include the ask-frequency rule and the cold-call
\* rule, and not the Price-framing rule.
C8_ScenarioB_Amended ==
  ScenarioB =>
    /\ ask_rate = 0
    /\ objections["Price"] >= 1
    /\ objections["Price"] < PriceThreshold
    /\ line_send \in Range(followups)
    /\ {"ask_increase", "cold"} \subseteq Range(recs)
    /\ "price" \notin Range(recs)
    /\ Line("rec", "price", <<>>, <<>>) \notin Range(sheet)

\* Scenario B has run and its report is written
C8_ScenarioB_Ran ==
  ScenarioB /\ sheet # <<>> /\ avg_secs = 90 /\ outbound = 1 /\ inbound = 0

\* C9: inbound + outbound <= total_calls; a record counts as inbound exactly
\* when its direction equals "inbound" whatever the case of its letters, as
\* outbound exactly when it equals "outbound" so, and otherwise as neither.
C9_DirectionCounts ==
  pc \in AfterMetrics =>
    LET written(i) == to_str(get(items[i], "direction", StrVal(<<>>)))
        same_letter(c, w) ==
          c = w \/ \E k \in DOMAIN LowerLetters : LowerLetters[k] = w /\ UpperLetters[k] = c
        equals_nocase(t, w) ==
          Len(t) = Len(w) /\ \A k \in DOMAIN t : same_letter(t[k], w[k])
        counted(w) == Cardinality({i \in DOMAIN items : equals_nocase(written(i), w)})
    IN  /\ inbound + outbound <= total_calls
        /\ inbound = counted(str_inbound)
        /\ outbound = counted(str_outbound)
        /\ total_calls = Len(items)

\* a day with a call whose direction is written in capitals and counted, and a
\* call counted toward neither
C9_MixedCaseAndOther ==
  /\ pc = "done"
  /\ inbound + outbound < total_calls
  /\ \E i \in DOMAIN items :
       /\ items[i]["direction"].t = "str"
       /\ items[i]["direction"].s \notin {str_inbound, str_outbound}
       /\ direction_of(items[i]) \in {str_inbound, str_outbound}

\* C10: what extract_followups returns for a transcript is the snippets of its
\* first 10 distinct matching lines, in line order.
C10_FirstTenInLineOrder ==
  t_idx > 0 =>
    extracted = truncate(first_seen(matching_snippets(texts[t_idx].text), {}), FollowupCap)

====
